---- MODULE Spec2Model ----
(***************************************************************************)
(* A model of titiler-stacapi-mspc: asset resolution and reader selection  *)
(* (asset_reader.py, assets_reader.py, stac_reader.py), the item-level     *)
(* tile() of the asset readers, and the STAC API mosaic backend with its   *)
(* TTL search cache (backend.py).                                          *)
(*                                                                         *)
(* Optional values (a dict key that may be missing, a None) are sequences  *)
(* of length 0 or 1: None is <<>> and Some(v) is <<v>>.                    *)
(***************************************************************************)
EXTENDS Integers, Sequences, FiniteSets, TLC

VARIABLES
    cfg,        \* process configuration: alternate_url, signing predicate
    rdr,        \* the reader object: its class, input item and attributes
    req,        \* the arguments of the call under way
    out,        \* what the last call returned or raised
    now,        \* the cache timer (time.monotonic)
    cache,      \* the TTLCache of get_assets, least recently used first
    hist        \* ghost: the history of one watched cache key

vars == <<cfg, rdr, req, out, now, cache, hist>>

None == <<>>
Some(v) == <<v>>
IsSome(o) == Len(o) = 1
Get(o) == o[1]

Range(s) == {s[i] : i \in DOMAIN s}

(***************************************************************************)
(* Bounds of the model.                                                    *)
(***************************************************************************)
MaxBands == 2
MaxTime == 3        \* the clock stops here
MaxCalls == 3       \* get_assets calls in one behaviour
MaxTiles == 2       \* mosaic tile calls in one behaviour
CacheMaxSize == 1   \* cache_config.maxsize
CacheTTL == 2       \* cache_config.ttl

(***************************************************************************)
(* Media types.                                                            *)
(***************************************************************************)
valid_types ==
    { "image/tiff; application=geotiff",
      "image/tiff; application=geotiff; profile=cloud-optimized",
      "image/tiff; profile=cloud-optimized; application=geotiff",
      "image/vnd.stac.geotiff; cloud-optimized=true",
      "image/tiff",
      "image/x.geotiff",
      "image/jp2",
      "application/x-hdf5",
      "application/x-hdf",
      "application/vnd+zarr",
      "application/x-netcdf" }

\* The list _get_reader matches the media type against, per reader class.
array_types(class) ==
    IF class = "STACReader"
    THEN { "application/x-hdf5", "application/x-hdf",
           "application/vnd.zarr", "application/x-netcdf" }
    ELSE { "application/x-hdf5", "application/x-hdf",
           "application/vnd.zarr", "application/x-netcdf",
           "application/netcdf" }

ReaderClasses == {"AssetReader", "AssetsReader", "STACReader"}

\* Every media type the model feeds to the readers: the valid asset types,
\* the array types of every reader class, the empty string and a foreign one.
MediaTypes ==
    valid_types \cup array_types("AssetReader") \cup {"", "application/geojson"}

(***************************************************************************)
(* STAC items and assets.  An asset record holds what the readers look at: *)
(* href, the optional "type", the optional "alternate" mapping (alternate  *)
(* key -> href), the optional "file:header_size" and the optional          *)
(* "raster:bands" list.  A band is its "statistics" mapping, a function    *)
(* whose domain is a subset of {"minimum", "maximum"}; a band without the  *)
(* key is the empty mapping, as b.get("statistics", {}) reads it.          *)
(***************************************************************************)
StatKeys == {"minimum", "maximum"}
MinValues == {0, 1}
MaxValues == {2}
StatValue(k) == IF k = "minimum" THEN MinValues ELSE MaxValues
AltKeys == {"s3"}

BandRecords ==
    UNION { {f \in [d -> MinValues \cup MaxValues] : \A k \in d : f[k] \in StatValue(k)}
            : d \in SUBSET StatKeys }

BandLists ==
    UNION { [1..n -> BandRecords] : n \in 0..MaxBands }

AlternateMaps ==
    UNION { [d -> {"alt-href"}] : d \in SUBSET AltKeys }

Truthy(o) == IsSome(o) /\ Get(o) # ""        \* a non-empty string
TruthyNum(o) == IsSome(o) /\ Get(o) # 0       \* a non-zero number
TruthyList(o) == IsSome(o) /\ Len(Get(o)) > 0 \* a non-empty list

(***************************************************************************)
(* Construction of a reader from an item.  AssetsReader.__attrs_post_init__*)
(* sets bounds and assets from the item; AssetReader defines no post-init, *)
(* so the attributes that MultiBaseReader declares without a value         *)
(* (bounds, crs, assets) stay unset and reading them raises AttributeError.*)
(* STACReader defers to rio_tiler's STACReader post-init, which keeps the  *)
(* assets whose media type is in include_asset_types (valid_types).        *)
(***************************************************************************)
SelectSeq2(s, Test(_)) == SelectSeq(s, Test)

STACAssets(item) ==
    LET Keep(n) == /\ IsSome(item.assets[n].type)
                   /\ Get(item.assets[n].type) \in valid_types
    IN  SelectSeq2(item.names, Keep)

Construct(class, item) ==
    CASE class = "AssetsReader" ->
            [class |-> class, input |-> item, bounds |-> Some(item.bbox),
             assets |-> Some(item.names), reader |-> "Reader"]
      [] class = "AssetReader" ->
            [class |-> class, input |-> item, bounds |-> None,
             assets |-> None, reader |-> "Reader"]
      [] OTHER ->
            [class |-> class, input |-> item, bounds |-> Some(item.bbox),
             assets |-> Some(STACAssets(item)), reader |-> "Reader"]

(***************************************************************************)
(* _get_reader: the decoding backend for an asset descriptor.  The result  *)
(* is the class returned, or the exception raised.                         *)
(***************************************************************************)
IsArrayType(class, info) ==
    /\ Truthy(info.type)
    /\ Get(info.type) \in array_types(class)

get_reader(class, info) ==
    IF IsArrayType(class, info)
    THEN IF class = "AssetsReader"
         THEN [error |-> "NotImplementedError", reader |-> None]
         ELSE [error |-> "", reader |-> Some("XarrayReader")]
    ELSE [error |-> "", reader |-> Some("Reader")]

(***************************************************************************)
(* _get_asset_info: the descriptor of an asset of the reader's item.       *)
(***************************************************************************)
Raise(e) == [error |-> e, info |-> None]

\* url = asset_info["href"], replaced by
\* asset_info["alternate"][alternate]["href"] when alternate_url is set.
ResolveUrl(a, config) ==
    IF Truthy(config.alternate_url)
    THEN IF /\ IsSome(a.alternate)
            /\ Get(config.alternate_url) \in DOMAIN Get(a.alternate)
         THEN Some(Get(a.alternate)[Get(config.alternate_url)])
         ELSE None                                   \* KeyError
    ELSE Some(a.href)

HasMinMax(b) == StatKeys \subseteq DOMAIN b

\* The (minimum, maximum) pairs of the bands that declare both.
RECURSIVE BandStats(_)
BandStats(bands) ==
    IF bands = <<>> THEN <<>>
    ELSE LET b == Head(bands)
         IN  (IF HasMinMax(b) THEN << <<b["minimum"], b["maximum"]>> >> ELSE <<>>)
             \o BandStats(Tail(bands))

\* The mutant of DatasetStatistics that keeps whatever pairs it found.
DatasetStatisticsPartial(a) ==
    IF TruthyList(a.bands) /\ BandStats(Get(a.bands)) # <<>>
    THEN Some(BandStats(Get(a.bands)))
    ELSE None

\* info["dataset_statistics"], set only when every band gave a pair.
DatasetStatistics(a) ==
    IF TruthyList(a.bands) /\ Len(BandStats(Get(a.bands))) = Len(Get(a.bands))
    THEN Some(BandStats(Get(a.bands)))
    ELSE None

HeaderEnv(a) ==
    IF TruthyNum(a.header)
    THEN [k \in {"GDAL_INGESTED_BYTES_AT_OPEN"} |-> Get(a.header)]
    ELSE <<>>

get_asset_info(r, asset, config) ==
    IF ~IsSome(r.assets) THEN Raise("AttributeError")
    ELSE IF asset \notin Range(Get(r.assets)) THEN Raise("InvalidAssetName")
    ELSE
      LET a == r.input.assets[asset]
          u == ResolveUrl(a, config)
      IN  IF ~IsSome(u) THEN Raise("KeyError")
          ELSE IF r.class = "STACReader"
          THEN [error |-> "",
                info  |-> Some([url  |-> [href |-> Get(u), signed |-> config.sign],
                                type |-> None,
                                env  |-> IF TruthyNum(a.header)
                                         THEN Some(HeaderEnv(a)) ELSE None,
                                metadata |-> Some("extra_fields"),
                                dataset_statistics |-> DatasetStatistics(a)])]
          ELSE [error |-> "",
                info  |-> Some([url  |-> [href |-> Get(u), signed |-> FALSE],
                                type |-> IF Truthy(a.type) THEN a.type ELSE None,
                                env  |-> Some(HeaderEnv(a)),
                                metadata |-> None,
                                dataset_statistics |-> DatasetStatistics(a)])]

\* STACReader._get_asset_info also stores the selected backend in self.reader.
ReaderAfterResolve(r, asset, config) ==
    LET res == get_asset_info(r, asset, config)
    IN  IF r.class = "STACReader" /\ res.error = ""
        THEN [r EXCEPT !.reader = Get(get_reader(r.class, Get(res.info)).reader)]
        ELSE r

(***************************************************************************)
(* Asset resolution as a state machine: a reader built from an item with   *)
(* one asset "a", under some process configuration, is asked for asset     *)
(* descriptors by name.                                                    *)
(***************************************************************************)
Idle == [op |-> "none"]

ResolveTypes == {None, Some(""), Some("image/tiff"), Some("application/x-netcdf")}

AssetRecords ==
    [href      : {"href"},
     type      : ResolveTypes,
     alternate : {None} \cup {Some(m) : m \in AlternateMaps},
     header    : {None, Some(0), Some(3)},
     bands     : {None} \cup {Some(b) : b \in BandLists}]

OneAssetItem(a) ==
    [id |-> 1, bbox |-> <<0, 1>>, names |-> <<"a">>,
     assets |-> [n \in {"a"} |-> a]]

Configs ==
    [alternate_url : {None, Some(""), Some("s3")}, sign : BOOLEAN]

\* rio_tiler's STACReader post-init raises MissingAssets when no asset is kept.
Constructible(class, item) ==
    class = "STACReader" => STACAssets(item) # <<>>

\* The reader attribute is a constructor argument (default Reader): the
\* caller may configure another backend class.
Backends == {"Reader", "XarrayReader"}

Configure(r, backend) == [r EXCEPT !.reader = backend]

InitResolve ==
    /\ cfg \in Configs
    /\ \E class \in ReaderClasses, a \in AssetRecords, backend \in Backends :
          /\ Constructible(class, OneAssetItem(a))
          /\ rdr = Configure(Construct(class, OneAssetItem(a)), backend)
    /\ req = Idle
    /\ out = Idle
    /\ now = 0
    /\ cache = <<>>
    /\ hist = <<>>

Resolve(asset) ==
    /\ req' = [op |-> "get_asset_info", asset |-> asset]
    /\ out' = get_asset_info(rdr, asset, cfg)
    /\ rdr' = ReaderAfterResolve(rdr, asset, cfg)
    /\ UNCHANGED <<cfg, now, cache, hist>>

NextResolve == \E asset \in {"a", "zz"} : Resolve(asset)

SpecResolve == InitResolve /\ [][NextResolve]_vars

(***************************************************************************)
(* Item-level tile().  Tiles and bounds are one-dimensional: tile t spans  *)
(* [t, t+1] and an item's bbox is <<min, max>>.  An expression is the set  *)
(* of asset names it mentions bare ("a") and the set it mentions with a    *)
(* band suffix ("a_b1"); len is the length of its text.                    *)
(***************************************************************************)
Tiles == {0, 1}

\* SpatialMixin.tile_exists, as called at the top of tile().
tile_exists(bounds, t) == t < bounds[2] /\ t + 1 > bounds[1]

Digits == <<"1", "2", "3", "4">>

\* The mutant of SubImageBands that names a band by its bare index.
SubImageBandsBare(nbands, idx) ==
    IF idx = <<>> THEN [i \in 1..nbands |-> <<Digits[i]>>]
    ELSE [i \in 1..Len(idx) |-> <<Digits[idx[i]]>>]

\* The band names of a backend's sub-image: "b<i>" for each band read.
SubImageBands(nbands, idx) ==
    IF idx = <<>> THEN [i \in 1..nbands |-> <<"b", Digits[i]>>]
    ELSE [i \in 1..Len(idx) |-> <<"b", Digits[idx[i]]>>]

\* idx = asset_indexes.get(asset) or indexes
AssetIdx(call, asset) ==
    IF asset \in DOMAIN call.asset_indexes /\ call.asset_indexes[asset] # <<>>
    THEN call.asset_indexes[asset]
    ELSE call.indexes

\* MultiBaseReader.parse_expression: the item's assets the expression names,
\* in the form the mode asks for; tuple(set(...)) leaves their order open.
ExprNames(r, e, asset_as_band) ==
    (IF asset_as_band THEN e.bare ELSE e.banded) \cap Range(Get(r.assets))

Reverse(s) == [i \in 1..Len(s) |-> s[Len(s) + 1 - i]]

parse_expression(r, e, asset_as_band, rev) ==
    LET In(n) == n \in ExprNames(r, e, asset_as_band)
        ordered == SelectSeq2(Get(r.assets), In)
    IN  IF rev THEN Reverse(ordered) ELSE ordered

NoRead(asset, e) ==
    [asset |-> asset, error |-> e, opened |-> None, closed |-> FALSE,
     raster |-> FALSE, band_names |-> <<>>, sub_bands |-> 0]

\* The mutant of LabelBands that renames without counting the bands.
LabelBandsUnchecked(asset, names, asset_as_band) ==
    [error |-> "",
     band_names |-> IF asset_as_band THEN << <<asset>> >>
                    ELSE [i \in 1..Len(names) |-> <<asset, "_">> \o names[i]]]

\* The band names the per-asset reader gives a sub-image, or the
\* AssetAsBandError it raises for a sub-image of several bands.
LabelBands(asset, names, asset_as_band) ==
    IF asset_as_band
    THEN IF Len(names) > 1
         THEN [error |-> "AssetAsBandError", band_names |-> <<>>]
         ELSE [error |-> "", band_names |-> << <<asset>> >>]
    ELSE [error |-> "",
          band_names |-> [i \in 1..Len(names) |-> <<asset, "_">> \o names[i]]]

\* The mutant of ExitHandle that closes the backend only when the body of
\* the with block returns.
ExitHandleOnReturn(read) ==
    IF read.error = "" THEN [read EXCEPT !.closed = TRUE] ELSE read

\* `with reader(url, ...) as src:`: the backend is closed when the body is
\* left, by return or by exception.
ExitHandle(read) == [read EXCEPT !.closed = TRUE]

\* The _reader closure of tile(): one asset, from descriptor to sub-image.
AssetRead(r, asset, call, io, config) ==
    LET res == get_asset_info(r, asset, config)
    IN  IF res.error # "" THEN NoRead(asset, res.error)
        ELSE
        LET info == Get(res.info)
            sel  == get_reader(r.class, info)
        IN  IF sel.error # "" THEN NoRead(asset, sel.error)
            ELSE
            LET backend == Get(sel.reader)
                idx     == AssetIdx(call, asset)
                nbands  == r.input.assets[asset].nbands
                names   == SubImageBands(nbands, idx)
                Left(e, rast, n) ==
                    [asset |-> asset, error |-> e, opened |-> Some(backend),
                     closed |-> FALSE, raster |-> rast, band_names |-> <<>>,
                     sub_bands |-> n]
            IN  IF io.asset = asset /\ io.at = "open"
                THEN NoRead(asset, "OpenError")
                ELSE ExitHandle(
                    IF r.class = "AssetReader" /\ backend = "XarrayReader"
                    THEN Left("NotImplementedError", FALSE, 0)
                    ELSE IF io.asset = asset /\ io.at = "read"
                    THEN Left("ReadError", backend = "Reader", 0)
                    ELSE IF \E i \in DOMAIN idx : idx[i] > nbands
                    THEN Left("IndexError", backend = "Reader", 0)
                    ELSE
                    LET lab == LabelBands(asset, names, call.asset_as_band)
                    IN  [asset |-> asset, error |-> lab.error,
                         opened |-> Some(backend), closed |-> FALSE,
                         raster |-> backend = "Reader",
                         band_names |-> lab.band_names, sub_bands |-> Len(names)])

RECURSIVE FirstFailure(_, _)
FirstFailure(reads, i) ==
    IF i > Len(reads) THEN 0
    ELSE IF reads[i].error # "" THEN i
    ELSE FirstFailure(reads, i + 1)

RECURSIVE Flatten(_)
Flatten(ss) == IF ss = <<>> THEN <<>> ELSE Head(ss) \o Flatten(Tail(ss))

\* The mutant of multi_arrays that merges threaded reads as they complete,
\* the last asset first.
multi_arrays_as_completed(r, selected, call, io, config) ==
    LET all   == [i \in 1..Len(selected) |-> AssetRead(r, selected[i], call, io, config)]
        k     == FirstFailure(all, 1)
        tried == IF k = 0 \/ io.threaded THEN all ELSE SubSeq(all, 1, k)
        done  == IF io.threaded THEN Reverse(all) ELSE all
    IN  [error |-> IF k = 0 THEN "" ELSE all[k].error,
         attempted |-> tried,
         band_names |-> IF k = 0
                        THEN Flatten([i \in 1..Len(done) |-> done[i].band_names])
                        ELSE <<>>]

\* multi_arrays: the per-asset reads in selection order.  With threads every
\* task runs; without, the tasks run lazily and stop at the first failure.
\* The first failure in selection order is the one raised.
multi_arrays(r, selected, call, io, config) ==
    LET all   == [i \in 1..Len(selected) |-> AssetRead(r, selected[i], call, io, config)]
        k     == FirstFailure(all, 1)
        tried == IF k = 0 \/ io.threaded THEN all ELSE SubSeq(all, 1, k)
    IN  [error |-> IF k = 0 THEN "" ELSE all[k].error,
         attempted |-> tried,
         band_names |-> IF k = 0
                        THEN Flatten([i \in 1..Len(all) |-> all[i].band_names])
                        ELSE <<>>]

TruthyExpr(e) == IsSome(e) /\ Get(e).len > 0

TileFail(e, w, sel) ==
    [op |-> "tile", error |-> e, warnings |-> w, selected |-> sel,
     attempted |-> <<>>, band_names |-> <<>>, expression |-> FALSE]

\* warnings.warn(..., ExpressionMixingWarning) when both are passed.
MixingWarnings(call) ==
    IF call.assets # <<>> /\ TruthyExpr(call.expression) THEN 1 ELSE 0

\* The mutant of SelectAssets in which a passed assets list is kept.
SelectAssetsKeep(r, call, io) ==
    IF call.assets # <<>> THEN call.assets
    ELSE IF TruthyExpr(call.expression)
    THEN parse_expression(r, Get(call.expression), call.asset_as_band, io.rev)
    ELSE call.assets

\* if expression: assets = self.parse_expression(expression, ...)
SelectAssets(r, call, io) ==
    IF TruthyExpr(call.expression)
    THEN parse_expression(r, Get(call.expression), call.asset_as_band, io.rev)
    ELSE call.assets

\* AssetReader.tile / AssetsReader.tile
tile(r, call, io, config) ==
    IF ~IsSome(r.bounds) THEN TileFail("AttributeError", 0, <<>>)
    ELSE IF ~tile_exists(Get(r.bounds), call.x)
    THEN TileFail("TileOutsideBounds", 0, <<>>)
    ELSE
    LET w == MixingWarnings(call)
        selected == SelectAssets(r, call, io)
    IN  IF TruthyExpr(call.expression) /\ selected = <<>>
        THEN TileFail("InvalidExpression", w, <<>>)
        ELSE IF selected = <<>> THEN TileFail("MissingAssets", w, <<>>)
        ELSE
        LET m == multi_arrays(r, selected, call, io, config)
        IN  [op |-> "tile", error |-> m.error, warnings |-> w,
             selected |-> selected, attempted |-> m.attempted,
             band_names |-> m.band_names, threaded |-> io.threaded,
             expression |-> m.error = "" /\ TruthyExpr(call.expression)]

(***************************************************************************)
(* Item-level reads as a state machine: a reader is built from an item     *)
(* with the assets "a" (any media type, 1..MaxBands bands) and "b" (a      *)
(* one-band GeoTIFF), and serves one call, as the per-request readers do.  *)
(***************************************************************************)
TileReaderClasses == {"AssetReader", "AssetsReader"}

ItemTypes ==
    {None} \cup {Some(t) : t \in array_types("AssetReader")
                               \cup {"", "image/tiff", "application/vnd+zarr",
                                     "application/geojson"}}

PlainAsset(href, type, nbands) ==
    [href |-> href, type |-> type, alternate |-> None, header |-> None,
     bands |-> None, nbands |-> nbands]

TwoAssetItem(id, type, nbands) ==
    [id |-> id, bbox |-> <<0, 1>>, names |-> <<"a", "b">>,
     assets |-> [n \in {"a", "b"} |->
                    IF n = "a" THEN PlainAsset("href-a", type, nbands)
                    ELSE PlainAsset("href-b", Some("image/tiff"), 1)]]

DefaultConfig == [alternate_url |-> None, sign |-> FALSE]

Expressions ==
    { None,
      Some([len |-> 0, bare |-> {}, banded |-> {}]),            \* ""
      Some([len |-> 4, bare |-> {}, banded |-> {"b"}]),         \* "b_b1"
      Some([len |-> 3, bare |-> {"a", "b"}, banded |-> {}]),    \* "a+b"
      Some([len |-> 5, bare |-> {}, banded |-> {"zz"}]) }       \* "zz_b1"

IndexOptions ==
    { [asset_indexes |-> <<>>, indexes |-> <<>>],
      [asset_indexes |-> [n \in {"a"} |-> <<1>>], indexes |-> <<>>],
      [asset_indexes |-> <<>>, indexes |-> <<1, 2>>],
      [asset_indexes |-> [n \in {"a"} |-> <<1>>], indexes |-> <<1, 2>>] }

TileCalls ==
    { [op |-> "tile", x |-> x, assets |-> as, expression |-> e,
       asset_indexes |-> ix.asset_indexes, indexes |-> ix.indexes,
       asset_as_band |-> aab] :
      x \in Tiles,
      as \in {<<>>, <<"a">>, <<"b">>, <<"a", "b">>, <<"b", "a">>, <<"zz">>},
      e \in Expressions, ix \in IndexOptions, aab \in BOOLEAN }

\* What the environment decides during a call: which backend open or read
\* fails, whether the tasks run in threads, and the order a set iterates in.
IoChoices ==
    [asset : {"a", "b"}, at : {"", "open", "read"}, threaded : BOOLEAN, rev : BOOLEAN]

InitItem ==
    /\ cfg = DefaultConfig
    /\ \E class \in TileReaderClasses, type \in ItemTypes, nbands \in 1..MaxBands :
          rdr = Construct(class, TwoAssetItem(1, type, nbands))
    /\ req = Idle
    /\ out = Idle
    /\ now = 0
    /\ cache = <<>>
    /\ hist = <<>>

\* `with self.reader(item, ...) as src_dst:` around the tile() call: the
\* per-item reader is left when tile() returns or raises.
ExitItemReader(res) ==
    [f \in DOMAIN res \cup {"item_reader_closed"} |->
        IF f = "item_reader_closed" THEN TRUE ELSE res[f]]

Tile(call, io) ==
    /\ req = Idle
    /\ req' = call
    /\ out' = ExitItemReader(tile(rdr, call, io, cfg))
    /\ UNCHANGED <<cfg, rdr, now, cache, hist>>

\* _get_reader called on a descriptor AssetInfo(url=..., type=...).
SelectReader(type) ==
    /\ req = Idle
    /\ req' = [op |-> "get_reader", type |-> type]
    /\ out' = get_reader(rdr.class, [url |-> "https://file", type |-> type])
    /\ UNCHANGED <<cfg, rdr, now, cache, hist>>

\* A reader serves one call: it is built, used and closed within a request.
TileStep ==
    /\ req = Idle
    /\ \E call \in TileCalls, io \in IoChoices : Tile(call, io)

SelectStep ==
    /\ req = Idle
    /\ \E type \in {None} \cup {Some(t) : t \in MediaTypes} : SelectReader(type)

NextItem == TileStep \/ SelectStep

SpecItem == InitItem /\ [][NextItem]_vars

(***************************************************************************)
(* Properties of the item-level reads (SpecItem).                          *)
(***************************************************************************)
IsTileCall == req.op = "tile"
BothPassed == req.assets # <<>> /\ TruthyExpr(req.expression)
AttemptedAssets == [i \in DOMAIN out.attempted |-> out.attempted[i].asset]
RasterReads == {out.attempted[i].asset : i \in {j \in DOMAIN out.attempted : out.attempted[j].raster}}

\* The tile intersects the bounds the reader holds: the bounds check passes.
PassesBoundsCheck == IsSome(rdr.bounds) /\ tile_exists(Get(rdr.bounds), req.x)

\* C4: a tile() on a coordinate that does not intersect the item's bounds
\* fails with TileOutsideBounds whatever the asset selection is, and nothing
\* is selected, resolved or opened.
C4_OutsideBoundsAlwaysRejected ==
    (IsTileCall /\ ~tile_exists(rdr.input.bbox, req.x))
        => /\ out.error = "TileOutsideBounds"
           /\ out.attempted = <<>>

C9_SelectionIsTotal ==
    req.op = "get_reader"
        => LET array == req.type # None /\ Get(req.type) \in array_types(rdr.class)
           IN  /\ out.error = ""
               /\ out.reader = Some(IF array THEN "XarrayReader" ELSE "Reader")

\* The array media types among valid_types.
ValidArrayTypes ==
    { "application/x-hdf5", "application/x-hdf",
      "application/vnd+zarr", "application/x-netcdf" }

\* C10: a tile() that passes the bounds check and selects an asset whose
\* media type is an array type fails with NotImplementedError, and the asset
\* is never read through the raster backend.
C10_ArrayNeverRaster ==
    (/\ IsTileCall /\ PassesBoundsCheck
     /\ ~TruthyExpr(req.expression) /\ req.assets = <<"a">>
     /\ rdr.input.assets["a"].type # None
     /\ Get(rdr.input.assets["a"].type) \in ValidArrayTypes
                                             \cup array_types(rdr.class))
        => /\ out.error = "NotImplementedError"
           /\ "a" \notin RasterReads

(***************************************************************************)
(* Properties of asset resolution (SpecResolve).                           *)
(***************************************************************************)
Resolved == req.op = "get_asset_info" /\ out.error = ""
ValidAssetName ==
    /\ req.op = "get_asset_info"
    /\ IsSome(rdr.assets)
    /\ req.asset \in Range(Get(rdr.assets))

\* C7: for a valid (item, asset name) pair, resolution returns a descriptor
\* whose URL is the alternate href when alternate_url names a key present
\* under the asset's "alternate" field, and the primary href otherwise.
C7_AlternateOrPrimaryHref ==
    ValidAssetName
        => LET a == rdr.input.assets[req.asset]
               named == /\ cfg.alternate_url # None
                        /\ Get(cfg.alternate_url) # ""
                        /\ a.alternate # None
                        /\ Get(cfg.alternate_url) \in DOMAIN Get(a.alternate)
           IN  /\ out.error = ""
               /\ Get(out.info).url.href =
                     IF named THEN Get(a.alternate)[Get(cfg.alternate_url)]
                     ELSE a.href

\* C8: dataset_statistics is all or nothing: a resolved descriptor carries
\* one (minimum, maximum) pair per band, in band order, exactly when the
\* asset lists bands and every band declares both minimum and maximum; when
\* a band lacks either (or no band is listed) the key is absent.
C8_StatisticsAllOrNothing ==
    Resolved
        => LET a == rdr.input.assets[req.asset]
               bands == IF a.bands = None THEN <<>> ELSE Get(a.bands)
               complete == /\ Len(bands) > 0
                           /\ \A i \in DOMAIN bands :
                                 /\ "minimum" \in DOMAIN bands[i]
                                 /\ "maximum" \in DOMAIN bands[i]
               ds == Get(out.info).dataset_statistics
           IN  IF complete
               THEN /\ ds # None
                    /\ Len(Get(ds)) = Len(bands)
                    /\ \A i \in DOMAIN bands :
                          Get(ds)[i] = <<bands[i]["minimum"], bands[i]["maximum"]>>
               ELSE ds = None

C8_Witness ==
    /\ Resolved
    /\ LET a == rdr.input.assets[req.asset]
       IN  /\ a.bands # None
           /\ Len(Get(a.bands)) = 2
           /\ Get(out.info).dataset_statistics = Some(<< <<0, 2>>, <<1, 2>> >>)

(***************************************************************************)
(* The mosaic backend (backend.py).  get_assets is wrapped by              *)
(* cachetools.cached over one TTLCache shared by every backend object.     *)
(* The cache is the sequence of its entries, least recently used first;    *)
(* an entry is [key, value, expires].                                      *)
(***************************************************************************)
Backend == [url |-> "https://stac", headers |-> <<>>]

\* json.dumps: None gives "null", a mapping gives an object text.
Dumps(v) == IF v = None THEN <<"null">> ELSE <<"object", Get(v)>>

\* str(geom) of the tile's polygon; tiles and polygons correspond one to one.
GeomOfTile(x) == <<"POLYGON", x>>

\* The key function of the cached decorator: hashkey(url, str(geom),
\* json.dumps(search_query), json.dumps(headers), **kwargs).
CacheKey(b, geom, search_query, kwargs) ==
    <<b.url, geom, Dumps(search_query), Dumps(Some(b.headers)), kwargs>>

Key4(k) == <<k[1], k[2], k[3], k[4]>>

\* A key holding a list cannot be hashed: the cache lookup raises TypeError.
Hashable(k) == \A i \in DOMAIN k[5] : k[5][i].kind # "list"

\* The mutant of the expiry test that still serves an entry at its expiry time.
IsLiveAtExpiry(entry, t) == t <= entry.expires

\* TTLCache: an entry is served while timer() < expires.
IsLive(entry, t) == t < entry.expires

HasKey(c, k) == \E i \in DOMAIN c : c[i].key = k
Index(c, k) == CHOOSE i \in DOMAIN c : c[i].key = k

Without(c, i) == SubSeq(c, 1, i - 1) \o SubSeq(c, i + 1, Len(c))

\* TTLCache.__getitem__: the link is moved to the end, then the expiry decides.
Touch(c, k) == IF HasKey(c, k) THEN Without(c, Index(c, k)) \o <<c[Index(c, k)]>> ELSE c
Hit(c, k, t) == HasKey(c, k) /\ IsLive(c[Index(c, k)], t)

\* TTLCache.expire
Expire(c, t) == LET Live(e) == IsLive(e, t) IN SelectSeq2(c, Live)

\* Cache.__setitem__: popitem() while the cache is full.
RECURSIVE Evict(_, _)
Evict(c, maxsize) == IF Len(c) + 1 > maxsize /\ c # <<>> THEN Evict(Tail(c), maxsize) ELSE c

\* The mutant of Store that keeps no entry for an empty list.
StoreUnlessEmpty(c, k, v, t) ==
    LET live == Expire(c, t)
        kept == IF HasKey(live, k) THEN Without(live, Index(live, k)) ELSE Evict(live, CacheMaxSize)
    IN  IF v = <<>> THEN c
        ELSE kept \o <<[key |-> k, value |-> v, expires |-> t + CacheTTL]>>

\* TTLCache.__setitem__ of a key that is not live.
Store(c, k, v, t) ==
    LET live == Expire(c, t)
        kept == IF HasKey(live, k) THEN Without(live, Index(live, k)) ELSE Evict(live, CacheMaxSize)
    IN  kept \o <<[key |-> k, value |-> v, expires |-> t + CacheTTL]>>

(***************************************************************************)
(* The catalog behind the search transport.  An item carries, besides its  *)
(* assets, the pixels of the tile canvas {1, 2} that its image fills.      *)
(***************************************************************************)
CatalogItem(id, bbox, pixels) ==
    [TwoAssetItem(id, Some("image/tiff"), 1) EXCEPT !.bbox = bbox]
        @@ [pixels |-> pixels]

Item1 == CatalogItem(1, <<1, 2>>, {1, 2})   \* touches tile 0 without covering it
Item2 == CatalogItem(2, <<0, 1>>, {1})
Item3 == CatalogItem(3, <<0, 1>>, {2})

Queries == {None, Some([collections |-> "c1"])}

\* ItemSearch(...).items_as_dicts() for a tile's polygon and a query.
Search(geom, search_query) ==
    IF geom = GeomOfTile(0)
    THEN IF search_query = None THEN <<Item1, Item2, Item3>>
         ELSE <<Item3, Item2, Item1>>
    ELSE <<>>

Canvas == {1, 2}

\* What the environment decides during a mosaic read: the item whose read
\* fails (0 for none), whether the per-item tasks run in threads, and the
\* order in which the threads complete.
Orders(n) ==
    {p \in [1..n -> 1..n] : \A i, j \in 1..n : p[i] = p[j] => i = j}

AllItems == Search(GeomOfTile(0), None)

MosaicIo ==
    [fail : {0} \cup {AllItems[i].id : i \in DOMAIN AllItems},
     threaded : BOOLEAN, order : Orders(Len(AllItems))]

\* The keyword arguments tile() forwards to every per-item read.
MosaicCall(x) ==
    [op |-> "tile", x |-> x, assets |-> <<"b">>, expression |-> None,
     asset_indexes |-> <<>>, indexes |-> <<>>, asset_as_band |-> FALSE]

\* The _reader closure of STACAPIBackend.tile: a reader of self.reader's
\* class is built on the item and asked for the tile.
ItemRead(class, item, x, io) ==
    tile(Construct(class, item), MosaicCall(x),
         [asset |-> "b", at |-> IF io.fail = item.id THEN "read" ELSE "",
          threaded |-> FALSE, rev |-> FALSE],
         DefaultConfig)

\* The loop of rio_tiler's mosaic_reader over the reads in the order seq:
\* TileOutsideBounds is skipped, any other error is raised, every image is
\* recorded and fed to the pixel selection until the canvas is full.
RECURSIVE MosaicLoop(_, _, _, _, _, _)
MosaicLoop(items, reads, seq, i, used, pixels) ==
    IF i > Len(seq)
    THEN [error |-> IF used = <<>> THEN "EmptyMosaicError" ELSE "",
          used |-> used, last |-> Len(seq)]
    ELSE LET k == seq[i]
         IN  IF reads[k].error = "TileOutsideBounds"
             THEN MosaicLoop(items, reads, seq, i + 1, used, pixels)
             ELSE IF reads[k].error # ""
             THEN [error |-> reads[k].error, used |-> used, last |-> i]
             ELSE IF pixels \cup items[k].pixels = Canvas
             THEN [error |-> "", used |-> Append(used, items[k]), last |-> i]
             ELSE MosaicLoop(items, reads, seq, i + 1, Append(used, items[k]),
                             pixels \cup items[k].pixels)

\* The mutant of mosaic_reader that takes the reads as the threads complete.
mosaic_reader_as_completed(items, reads, io) ==
    LET present(k) == k <= Len(items)
    IN  MosaicLoop(items, reads, SelectSeq2(io.order, present), 1, <<>>, {})

\* mosaic_reader(mosaic_assets, _reader, x, y, z): the tasks are consumed in
\* the order of mosaic_assets, however the threads complete.
mosaic_reader(items, reads, io) ==
    MosaicLoop(items, reads, [i \in 1..Len(items) |-> i], 1, <<>>, {})

\* The items a reader was built for: every item when the tasks run in
\* threads, the items up to the last one consumed when they run lazily.
ReadersBuilt(items, m, io) ==
    IF io.threaded THEN [i \in 1..Len(items) |-> items[i].id]
    ELSE [i \in 1..m.last |-> items[i].id]

(***************************************************************************)
(* The mosaic backend as a state machine.  hist watches one cache key: n   *)
(* counts the calls made, stored is when the transport last answered a     *)
(* call of that key, evicted whether the entry stored then was since       *)
(* dropped for capacity, and last4 when the transport last answered a call *)
(* agreeing with the key on (url, geometry, query, headers).               *)
(***************************************************************************)
FieldsKwargs ==
    { <<>>,
      <<[name |-> "fields", kind |-> "tuple", value |-> <<"id">>]>>,
      <<[name |-> "fields", kind |-> "list", value |-> <<"id">>]>> }

Geoms == {GeomOfTile(x) : x \in Tiles}

WatchedKey == CacheKey(Backend, GeomOfTile(0), None, <<>>)

NoHistory ==
    [key |-> WatchedKey, n |-> 0, stored |-> None, evicted |-> FALSE, last4 |-> None]

InitCache ==
    /\ cfg = DefaultConfig
    /\ rdr = [class |-> "AssetReader"]
    /\ req = Idle
    /\ out = Idle
    /\ now = 0
    /\ cache = <<>>
    /\ hist = NoHistory

InitMosaic ==
    /\ cfg = DefaultConfig
    /\ rdr \in {[class |-> c] : c \in TileReaderClasses}
    /\ req = Idle
    /\ out = Idle
    /\ now = 0
    /\ cache = <<>>
    /\ hist = NoHistory

Tick ==
    /\ now < MaxTime
    /\ now' = now + 1
    /\ UNCHANGED <<cfg, rdr, req, out, cache, hist>>

\* The mutant of CachedGetAssets that stores an empty list for a failed search.
CachedGetAssetsStoringFailure(c, k, geom, search_query, ok, t) ==
    IF ~Hashable(k)
    THEN [error |-> "TypeError", transport |-> FALSE, items |-> <<>>, cache |-> c]
    ELSE IF Hit(c, k, t)
    THEN [error |-> "", transport |-> FALSE,
          items |-> c[Index(c, k)].value, cache |-> Touch(c, k)]
    ELSE IF ~ok
    THEN [error |-> "APIError", transport |-> TRUE, items |-> <<>>,
          cache |-> Store(Touch(c, k), k, <<>>, t)]
    ELSE [error |-> "", transport |-> TRUE,
          items |-> Search(geom, search_query),
          cache |-> Store(Touch(c, k), k, Search(geom, search_query), t)]

\* The cached wrapper around get_assets: look the key up, call the function
\* on a miss and store what it returns.  ok is whether the transport
\* answers; a failure is raised and nothing is stored.
CachedGetAssets(c, k, geom, search_query, ok, t) ==
    IF ~Hashable(k)
    THEN [error |-> "TypeError", transport |-> FALSE, items |-> <<>>, cache |-> c]
    ELSE IF Hit(c, k, t)
    THEN [error |-> "", transport |-> FALSE,
          items |-> c[Index(c, k)].value, cache |-> Touch(c, k)]
    ELSE IF ~ok
    THEN [error |-> "APIError", transport |-> TRUE, items |-> <<>>,
          cache |-> Touch(c, k)]
    ELSE [error |-> "", transport |-> TRUE,
          items |-> Search(geom, search_query),
          cache |-> Store(Touch(c, k), k, Search(geom, search_query), t)]

\* The ghost after a call of key k with result g that left the cache as c.
Watch(h, k, g, c, t) ==
    LET mine == k = h.key
        fetched == g.transport /\ g.error = ""
    IN  [key |-> h.key,
         n |-> h.n + 1,
         stored |-> IF mine /\ fetched THEN Some(t) ELSE h.stored,
         evicted |-> IF mine /\ fetched THEN FALSE
                     ELSE h.evicted \/ (/\ IsSome(h.stored)
                                        /\ t < Get(h.stored) + CacheTTL
                                        /\ ~HasKey(c, h.key)),
         last4 |-> IF Key4(k) = Key4(h.key) /\ fetched THEN Some(t) ELSE h.last4]

Ids(items) == [i \in DOMAIN items |-> items[i].id]

GetAssets(geom, search_query, kwargs, ok) ==
    \E k \in {CacheKey(Backend, geom, search_query, kwargs)} :
    \E g \in {CachedGetAssets(cache, k, geom, search_query, ok, now)} :
        /\ req' = [op |-> "get_assets", key |-> k, at |-> now]
        /\ out' = [op |-> "get_assets", error |-> g.error, transport |-> g.transport,
                   items |-> Ids(g.items), before |-> hist]
        /\ cache' = g.cache
        /\ hist' = Watch(hist, k, g, g.cache, now)
        /\ UNCHANGED <<cfg, rdr, now>>

\* The outcome of tile() once mosaic_reader has come back with m.
Mosaicked(items, m, io) ==
    [error |-> m.error, used |-> IF m.error = "" THEN m.used ELSE <<>>,
     built |-> ReadersBuilt(items, m, io), mosaicked |-> TRUE]

\* The mutant of the body of tile() that mosaics whatever the search gave.
MosaicOutcomeUnchecked(class, items, x, io) ==
    CHOOSE o \in { Mosaicked(items, m, io) :
                     m \in {mosaic_reader(items,
                                [i \in DOMAIN items |-> ItemRead(class, items[i], x, io)],
                                io)} } : TRUE

\* The body of STACAPIBackend.tile after the search: an empty result is
\* refused, any other is handed to mosaic_reader with the _reader closure.
MosaicOutcome(class, items, x, io) ==
    IF items = <<>>
    THEN [error |-> "NoAssetFoundError", used |-> <<>>, built |-> <<>>,
          mosaicked |-> FALSE]
    ELSE CHOOSE o \in { Mosaicked(items, m, io) :
                          m \in {mosaic_reader(items,
                                     [i \in DOMAIN items |-> ItemRead(class, items[i], x, io)],
                                     io)} } : TRUE

\* STACAPIBackend.tile: search through assets_for_tile, then mosaic.
MosaicTile(x, search_query, ok, io) ==
    \E k \in {CacheKey(Backend, GeomOfTile(x), search_query, <<>>)} :
    \E g \in {CachedGetAssets(cache, k, GeomOfTile(x), search_query, ok, now)} :
    \E o \in {IF g.error # ""
               THEN [error |-> g.error, used |-> <<>>, built |-> <<>>,
                     mosaicked |-> FALSE]
               ELSE MosaicOutcome(rdr.class, g.items, x, io)} :
        /\ req' = [op |-> "tile", key |-> k, at |-> now]
        /\ out' = [op |-> "tile", error |-> o.error, transport |-> g.transport,
                   searched |-> g.error = "", items |-> Ids(g.items),
                   used |-> Ids(o.used), built |-> o.built,
                   mosaicked |-> o.mosaicked, before |-> hist]
        /\ cache' = g.cache
        /\ hist' = Watch(hist, k, g, g.cache, now)
        /\ UNCHANGED <<cfg, rdr, now>>

\* get_assets(geom, **kwargs) without a search_query argument, as
\* assets_for_tile, assets_for_point and assets_for_bbox call it when they
\* are given none: the key function (self, geom, search_query, **kwargs)
\* has no default for search_query, so computing the key raises TypeError
\* before the cache is looked at or the function is called.
GetAssetsNoQuery(geom, kwargs) ==
    /\ req' = [op |-> "get_assets_no_query", geom |-> geom, kwargs |-> kwargs,
               at |-> now]
    /\ out' = [op |-> "get_assets_no_query", error |-> "TypeError",
               transport |-> FALSE, items |-> <<>>, before |-> hist]
    /\ hist' = [hist EXCEPT !.n = @ + 1]
    /\ UNCHANGED <<cfg, rdr, now, cache>>

GetAssetsStep ==
    /\ hist.n < MaxCalls
    /\ \E geom \in Geoms, q \in Queries, kw \in FieldsKwargs, ok \in BOOLEAN :
          GetAssets(geom, q, kw, ok)

MosaicTileStep ==
    /\ hist.n < MaxTiles
    /\ \E x \in Tiles, q \in Queries, ok \in BOOLEAN, io \in MosaicIo :
          MosaicTile(x, q, ok, io)

GetAssetsNoQueryStep ==
    /\ hist.n < MaxCalls
    /\ \E geom \in Geoms, kw \in FieldsKwargs : GetAssetsNoQuery(geom, kw)

NextCache == Tick \/ GetAssetsStep \/ GetAssetsNoQueryStep

SpecCache == InitCache /\ [][NextCache]_vars

NextMosaic == Tick \/ MosaicTileStep

SpecMosaic == InitMosaic /\ [][NextMosaic]_vars

(***************************************************************************)
(* Claims about the search cache, checked under SpecCache.                 *)
(***************************************************************************)
IsGetAssets == out.op = "get_assets"

OnWatchedKey == IsGetAssets /\ req.key = hist.key

IsMosaicTile == out.op = "tile"

\* s is a subsequence of t: its elements appear in t in the same order.
IsSubsequence(s, t) ==
    \E f \in [DOMAIN s -> DOMAIN t] :
        /\ \A i \in DOMAIN s : t[f[i]] = s[i]
        /\ \A i, j \in DOMAIN s : i < j => f[i] < f[j]

\* C2: when the item search of a mosaic tile() returns an empty list the
\* call fails with NoAssetFoundError, no per-item reader is built and
\* mosaic_reader is not run.
C2_EmptySearchRefused ==
    (IsMosaicTile /\ out.searched /\ out.items = <<>>)
        => /\ out.error = "NoAssetFoundError"
           /\ out.built = <<>>
           /\ ~out.mosaicked

C2_Witness ==
    /\ IsMosaicTile
    /\ out.searched
    /\ out.transport
    /\ out.items = <<>>
    /\ out.error = "NoAssetFoundError"

IsSearchCall == out.op \in {"get_assets", "get_assets_no_query"}

\* C14: the search query and the field projection are optional: a
\* get_assets call made without a search_query, without fields or with an
\* explicit fields list is not refused for its arguments; it is served from
\* the cache or reaches the search transport.
C14_QueryAndFieldsOptional ==
    IsSearchCall => out.error # "TypeError"

\* A step that is a search call, and one that is a search call that failed.
SearchCallStep == hist'.n = hist.n + 1
FailedSearchStep == SearchCallStep /\ out'.error # ""

\* C15: the search cache never stores a failure.  A get_assets call that
\* fails leaves the entries of the cache as they were, and when the search
\* itself failed the next call with the same key invokes the transport again.
C15_FailureNotCached ==
    [][/\ FailedSearchStep => Range(cache') = Range(cache)
       /\ (/\ SearchCallStep
           /\ out.op = "get_assets" /\ out.error = "APIError"
           /\ req'.op = "get_assets" /\ req'.key = req.key)
              => out'.transport]_vars

C15_Witness ==
    /\ out.op = "get_assets"
    /\ out.error = "APIError"
    /\ out.transport
    /\ cache # <<>>
    /\ ~HasKey(cache, req.key)

(***************************************************************************)
(* Further properties of asset resolution (SpecResolve).                   *)
(***************************************************************************)
\* C11: after a STACReader has resolved an asset, the reader it will use
\* matches the asset's declared media type: XarrayReader for the array
\* (NetCDF, HDF, Zarr) media types, the raster Reader for the others.
C11_ReaderMatchesMediaType ==
    (Resolved /\ rdr.class = "STACReader")
        => LET type == rdr.input.assets[req.asset].type
           IN  rdr.reader = IF Truthy(type) /\ Get(type) \in array_types("STACReader")
                            THEN "XarrayReader"
                            ELSE "Reader"

\* C13: resolving an asset name that is not among the item's asset keys
\* fails with InvalidAssetName, for every reader class, as soon as the reader
\* has been constructed from the item.
C13_UnknownNameIsInvalidAssetName ==
    (req.op = "get_asset_info" /\ req.asset \notin DOMAIN rdr.input.assets)
        => out.error = "InvalidAssetName"

\* An asset that declares no extension field: no alternate, no header size,
\* no raster bands.
BareAsset(a) == a.alternate = None /\ a.header = None /\ a.bands = None

\* C18: under the default configuration, resolving one of the item's assets
\* returns a descriptor whose env holds GDAL_INGESTED_BYTES_AT_OPEN, with the
\* declared header size as value, exactly when the asset declares
\* file:header_size; and for an asset without extension fields the descriptor
\* is exactly url = href, type = the declared media type, env = {}.
C18_HeaderHintAndBareDescriptor ==
    (/\ req.op = "get_asset_info"
     /\ req.asset \in DOMAIN rdr.input.assets
     /\ ~Truthy(cfg.alternate_url))
        => /\ out.error = ""
           /\ LET a    == rdr.input.assets[req.asset]
                  info == Get(out.info)
              IN  /\ info.env # None
                  /\ IF a.header # None
                     THEN /\ DOMAIN Get(info.env) = {"GDAL_INGESTED_BYTES_AT_OPEN"}
                          /\ Get(info.env)["GDAL_INGESTED_BYTES_AT_OPEN"] = Get(a.header)
                     ELSE DOMAIN Get(info.env) = {}
                  /\ BareAsset(a)
                        => /\ info.url.href = a.href
                           /\ info.type = a.type
                           /\ info.metadata = None
                           /\ info.dataset_statistics = None

\* C20: asset resolution leaves the reader object as it was: no
\* _get_asset_info call changes the reader's state, its configured reader
\* backend class included.
C20_ResolutionLeavesReaderUnchanged == [][rdr' = rdr]_vars

(***************************************************************************)
(* Further properties of the item-level reads (SpecItem).                  *)
(***************************************************************************)
\* A tile() without expression in default mode that returned an image.
ReturnedDefaultMode ==
    /\ IsTileCall
    /\ ~req.asset_as_band
    /\ ~TruthyExpr(req.expression)
    /\ out.error = ""

\* The indexes of the bands read from an asset: the ones asked for, or all.
BandsRead(asset) ==
    IF AssetIdx(req, asset) = <<>>
    THEN [i \in 1..rdr.input.assets[asset].nbands |-> i]
    ELSE AssetIdx(req, asset)

BandOwners == [i \in DOMAIN out.band_names |-> out.band_names[i][1]]

FirstAssetIsArray ==
    /\ ~TruthyExpr(req.expression)
    /\ req.assets # <<>>
    /\ req.assets[1] \in DOMAIN rdr.input.assets
    /\ LET type == rdr.input.assets[req.assets[1]].type
       IN  Truthy(type) /\ Get(type) \in array_types(rdr.class)

\* C21: a tile() on a coordinate inside the item's bounds whose first
\* selected asset is of array kind is rejected with NotImplementedError, and
\* no backend was opened for that asset before the rejection.
C21_ArrayRejectedBeforeOpen ==
    (IsTileCall /\ tile_exists(rdr.input.bbox, req.x) /\ FirstAssetIsArray)
        => /\ out.error = "NotImplementedError"
           /\ \A i \in DOMAIN out.attempted :
                 out.attempted[i].asset = req.assets[1]
                    => out.attempted[i].opened = None

(***************************************************************************)
(* Concurrent get_assets calls.  The cached decorator is given no lock, so *)
(* a call is three separate steps on the shared TTLCache: the lookup       *)
(* cache[k], the search on a miss, and the store cache[k] = v.  Request    *)
(* threads interleave between the steps.  Every thread makes the same      *)
(* search (the watched key); the catalog may answer two searches           *)
(* differently.  req maps a thread to its position in the wrapper and out  *)
(* to what its last call returned; hist.first is the entry written by the  *)
(* first store since the key last had no live entry.                       *)
(***************************************************************************)
Threads == {1, 2}

\* What the catalog may answer to the search of the watched key.
CatalogAnswers == {<<Item2>>, <<Item2, Item3>>}

Waiting == [pc |-> "idle", value |-> <<>>]

InitConcurrent ==
    /\ cfg = DefaultConfig
    /\ rdr = [class |-> "AssetReader"]
    /\ req = [t \in Threads |-> Waiting]
    /\ out = [t \in Threads |-> Idle]
    /\ now = 0
    /\ cache = <<>>
    /\ hist = [n |-> 0, first |-> None]

\* try: return cache[k]
Lookup(t) ==
    /\ req[t].pc = "idle"
    /\ hist.n < MaxCalls
    /\ IF Hit(cache, WatchedKey, now)
       THEN /\ out' = [out EXCEPT ![t] = [op |-> "get_assets", error |-> "",
                                          transport |-> FALSE,
                                          items |-> Ids(cache[Index(cache, WatchedKey)].value)]]
            /\ req' = req
       ELSE /\ req' = [req EXCEPT ![t] = [pc |-> "missed", value |-> <<>>]]
            /\ out' = out
    /\ cache' = Touch(cache, WatchedKey)
    /\ hist' = [hist EXCEPT !.n = @ + 1]
    /\ UNCHANGED <<cfg, rdr, now>>

\* v = func(*args, **kwargs): the search, answered by the transport.
Fetch(t) ==
    /\ req[t].pc = "missed"
    /\ \E v \in CatalogAnswers :
          req' = [req EXCEPT ![t] = [pc |-> "fetched", value |-> v]]
    /\ UNCHANGED <<cfg, rdr, out, now, cache, hist>>

\* cache[k] = v; return v
StoreResult(t) ==
    /\ req[t].pc = "fetched"
    /\ cache' = Store(cache, WatchedKey, req[t].value, now)
    /\ hist' = [hist EXCEPT !.first =
                   IF Hit(cache, WatchedKey, now) THEN @
                   ELSE Some([key |-> WatchedKey, value |-> req[t].value,
                              expires |-> now + CacheTTL])]
    /\ out' = [out EXCEPT ![t] = [op |-> "get_assets", error |-> "",
                                  transport |-> TRUE, items |-> Ids(req[t].value)]]
    /\ req' = [req EXCEPT ![t] = Waiting]
    /\ UNCHANGED <<cfg, rdr, now>>

LookupStep == \E t \in Threads : Lookup(t)
FetchStep == \E t \in Threads : Fetch(t)
StoreStep == \E t \in Threads : StoreResult(t)

NextConcurrent == Tick \/ LookupStep \/ FetchStep \/ StoreStep

SpecConcurrent == InitConcurrent /\ [][NextConcurrent]_vars

(***************************************************************************)
(* Properties of concurrent searches (SpecConcurrent).                     *)
(***************************************************************************)
\* C16: population is first-writer-wins per key: while the entry written
\* first for a key is within its time-to-live, it is the entry the cache
\* keeps for the key, whatever identical searches store after it.
C16_FirstWriterWins ==
    (IsSome(hist.first) /\ now < Get(hist.first).expires)
        => /\ HasKey(cache, WatchedKey)
           /\ cache[Index(cache, WatchedKey)] = Get(hist.first)

(***************************************************************************)
(* The search request get_assets builds.  A mapping is a function from its *)
(* keys to its values; a query value is <<"q", <<"v", n>>>>, the geometry  *)
(* serialized by model_dump_json is <<"geojson", geom>>, and a fields list  *)
(* is a sequence of field names.                                           *)
(***************************************************************************)
QueryKeys == {"bbox", "intersects", "fields", "collections"}

QueryValues == { <<"q", <<"v", 1>>>>, <<"q", <<"v", 2>>>> }

QueryMappings == UNION { [K -> QueryValues] : K \in SUBSET QueryKeys }

FieldsArguments == {None, Some(<<>>), Some(<<"id">>)}

DefaultFields == <<"assets", "id", "bbox", "collection">>

\* geom.model_dump_json(exclude_none=True)
ModelDumpJson(geom) == <<"geojson", geom>>

\* {**base, **over}: the keys of over win.
Merge(base, over) ==
    [k \in DOMAIN base \cup DOMAIN over |->
        IF k \in DOMAIN over THEN over[k] ELSE base[k]]

\* params.pop(key, None)
Pop(m, key) == [k \in DOMAIN m \ {key} |-> m[k]]

\* The mutant of SearchParams that lets the keys of the query mapping win.
SearchParamsQueryWins(geom, search_query, fields) ==
    LET query  == IF IsSome(search_query) THEN Get(search_query) ELSE <<>>
        chosen == IF TruthyList(fields) THEN Get(fields) ELSE DefaultFields
        own    == [k \in {"intersects", "fields"} |->
                      IF k = "intersects" THEN ModelDumpJson(geom) ELSE chosen]
    IN  Pop(Merge(own, query), "bbox")

\* The params of the body of get_assets: the query mapping, overridden by
\* intersects and fields, without bbox.
SearchParams(geom, search_query, fields) ==
    LET query  == IF IsSome(search_query) THEN Get(search_query) ELSE <<>>
        chosen == IF TruthyList(fields) THEN Get(fields) ELSE DefaultFields
        own    == [k \in {"intersects", "fields"} |->
                      IF k = "intersects" THEN ModelDumpJson(geom) ELSE chosen]
    IN  Pop(Merge(query, own), "bbox")

InitRequest ==
    /\ cfg = DefaultConfig
    /\ rdr = [class |-> "AssetReader"]
    /\ req = Idle
    /\ out = Idle
    /\ now = 0
    /\ cache = <<>>
    /\ hist = <<>>

\* The body of get_assets up to the ItemSearch call, which receives params.
BuildRequest(geom, search_query, fields) ==
    /\ req' = [op |-> "search_request", geom |-> geom,
               search_query |-> search_query, fields |-> fields]
    /\ out' = [op |-> "search_request",
               params |-> SearchParams(geom, search_query, fields)]
    /\ UNCHANGED <<cfg, rdr, now, cache, hist>>

NextRequest ==
    \E geom \in Geoms, search_query \in {None} \cup {Some(q) : q \in QueryMappings},
       fields \in FieldsArguments :
        BuildRequest(geom, search_query, fields)

SpecRequest == InitRequest /\ [][NextRequest]_vars

IsSearchRequest == req.op = "search_request"

\* C22: the request get_assets hands to the search has no bbox key, has
\* intersects equal to the serialized geometry argument and fields equal to
\* the fields argument (the default assets, id, bbox, collection when none or
\* an empty one is given), whatever the query mapping holds under bbox,
\* intersects or fields, and carries every other key of the query mapping
\* with its value.
C22_RequestParams ==
    IsSearchRequest
        => LET query == IF IsSome(req.search_query) THEN Get(req.search_query)
                        ELSE <<>>
               p == out.params
           IN  /\ "bbox" \notin DOMAIN p
               /\ p["intersects"] = ModelDumpJson(req.geom)
               /\ p["fields"] = IF TruthyList(req.fields) THEN Get(req.fields)
                                ELSE DefaultFields
               /\ DOMAIN p = (DOMAIN query \cup {"intersects", "fields"}) \ {"bbox"}
               /\ \A k \in DOMAIN query \ {"bbox", "intersects", "fields"} :
                     p[k] = query[k]

C22_Witness ==
    /\ IsSearchRequest
    /\ IsSome(req.search_query)
    /\ DOMAIN Get(req.search_query) = QueryKeys
    /\ req.fields = Some(<<"id">>)
    /\ DOMAIN out.params = {"intersects", "fields", "collections"}
    /\ out.params["fields"] = <<"id">>
    /\ out.params["collections"] = Get(req.search_query)["collections"]

(***************************************************************************)
(* Empty search results in the cache (SpecMosaic).                         *)
(***************************************************************************)
\* The mosaic tile() call just made found no item through a search that the
\* transport answered at the time of the call.
FetchedNothing ==
    /\ IsMosaicTile
    /\ out.searched /\ out.transport
    /\ out.items = <<>>

\* C23: an empty search result is cached like any other.  The mosaic tile()
\* call that follows, with the same key, one whose search the transport
\* answered with no item fails with NoAssetFoundError without invoking the
\* transport when it is made within the time-to-live, and invokes the
\* transport again when it is made once the time-to-live has passed.
C23_EmptyResultCached ==
    [][(/\ FetchedNothing
        /\ SearchCallStep
        /\ out'.op = "tile"
        /\ req'.key = req.key)
          => IF req'.at < req.at + CacheTTL
             THEN /\ ~out'.transport
                  /\ out'.error = "NoAssetFoundError"
                  /\ out'.items = <<>>
             ELSE out'.transport]_vars

C23_Witness ==
    /\ IsMosaicTile
    /\ out.before.n = 1
    /\ out.searched /\ ~out.transport
    /\ out.items = <<>>
    /\ out.error = "NoAssetFoundError"

====
